---- MODULE Spec2Model ----
(***************************************************************************)
(* A model of research_rabbit/utils_bing.py: the Bing search client, the   *)
(* response normalizer, the two source formatters and the bing_search      *)
(* orchestration.                                                          *)
(*                                                                         *)
(* Python values are modelled as follows.  A dict is a TLA+ function whose *)
(* DOMAIN is the dict's key set; a list is a sequence; a str is a string.  *)
(* Where the code tests the type of a value (isinstance), the value is     *)
(* tagged: [t |-> "dict", v |-> ...], [t |-> "str", v |-> ...], ...        *)
(* A call ends in an outcome: [kind |-> "return", value |-> ...] or        *)
(* [kind |-> "raise", exc |-> <exception class>, msg |-> <message>].       *)
(***************************************************************************)
EXTENDS Integers, Sequences, FiniteSets, TLC

VARIABLES pc, input, output, env, http, result, locals

vars == <<pc, input, output, env, http, result, locals>>

(* Bounds of the model. *)
MaxWeb == 3
MaxImages == 12

(* Python's None; also the value of a variable that is not in use. *)
None == [t |-> "none"]

PyStr(s) == [t |-> "str", v |-> s]
PyInt(n) == [t |-> "int", v |-> n]
PyList(l) == [t |-> "list", v |-> l]
PyDict(d) == [t |-> "dict", v |-> d]

Return(v) == [kind |-> "return", value |-> v]
Raise(e, m) == [kind |-> "raise", exc |-> e, msg |-> m]
Pending == [kind |-> "pending"]

Min(a, b) == IF a <= b THEN a ELSE b

(* d restricted to the keys other than k: a dict that lacks the key k. *)
Without(d, k) == [x \in DOMAIN d \ {k} |-> d[x]]

(* seq[:n] for n >= 0 *)
Prefix(seq, n) == SubSeq(seq, 1, Min(n, Len(seq)))

(***************************************************************************)
(* process_bing_search_results                                             *)
(***************************************************************************)

(* The slice bound of data["images"]["value"][:10]. *)
ImagesLimit == 10

(* The keys of a web result that the code reads with [], in the order it   *)
(* reads them.                                                             *)
WebKeys == <<"snippet", "name", "url">>

(* The first key in keys that d lacks, "" when it has them all: the key of *)
(* the KeyError that reading them in this order raises.                    *)
RECURSIVE FirstMissing(_, _)
FirstMissing(d, keys) ==
    IF keys = <<>> THEN ""
    ELSE IF Head(keys) \notin DOMAIN d THEN Head(keys)
    ELSE FirstMissing(d, Tail(keys))

(* A mutant of processed_result: the content is taken from the title. *)
processed_result_content_from_name(r) ==
    [content |-> r.name,
     raw_content |-> IF "snippet" \in DOMAIN r THEN r.snippet ELSE "",
     score |-> 0,
     title |-> r.name,
     url |-> r.url]

processed_result(r) ==
    [content |-> r.snippet,
     raw_content |-> IF "snippet" \in DOMAIN r THEN r.snippet ELSE "",
     score |-> 0,
     title |-> r.name,
     url |-> r.url]

processed_image(image) ==
    [url |-> image.contentUrl,
     thumbnail_url |-> IF "thumbnailUrl" \in DOMAIN image THEN image.thumbnailUrl ELSE "",
     title |-> IF "name" \in DOMAIN image THEN image.name ELSE ""]

(* The web results the loop of lines 17-26 visits. *)
WebValues(data) ==
    IF "webPages" \in DOMAIN data /\ "value" \in DOMAIN data.webPages
    THEN data.webPages.value
    ELSE <<>>

(* A mutant of ImageValues: the slice is forgotten. *)
ImageValuesUnsliced(data) ==
    IF "images" \in DOMAIN data /\ "value" \in DOMAIN data.images
    THEN data.images.value
    ELSE <<>>

(* The images the loop of lines 29-36 visits. *)
ImageValues(data) ==
    IF "images" \in DOMAIN data /\ "value" \in DOMAIN data.images
    THEN Prefix(data.images.value, ImagesLimit)
    ELSE <<>>

(* The outcome of process_bing_search_results(data): the normalized        *)
(* response, or the KeyError of the first subscript that fails.            *)
process_bing_search_results(data) ==
    IF "queryContext" \notin DOMAIN data THEN Raise("KeyError", "queryContext")
    ELSE IF "originalQuery" \notin DOMAIN data.queryContext
    THEN Raise("KeyError", "originalQuery")
    ELSE
      LET webs == WebValues(data)
          imgs == ImageValues(data)
          badWeb == {i \in 1..Len(webs) : FirstMissing(webs[i], WebKeys) # ""}
          badImg == {i \in 1..Len(imgs) : "contentUrl" \notin DOMAIN imgs[i]}
      IN  IF badWeb # {}
          THEN Raise("KeyError",
                     FirstMissing(webs[CHOOSE i \in badWeb : \A j \in badWeb : i <= j],
                                  WebKeys))
          ELSE IF badImg # {} THEN Raise("KeyError", "contentUrl")
          ELSE Return([answer |-> None,
                       follow_up_questions |-> None,
                       images |-> [i \in 1..Len(imgs) |-> processed_image(imgs[i])],
                       query |-> data.queryContext.originalQuery,
                       response_time |-> None,
                       results |-> [i \in 1..Len(webs) |-> processed_result(webs[i])]])

(* ---- the raw responses the normalizer is applied to ---- *)

WebEntry(i) ==
    [snippet |-> "snippet " \o ToString(i),
     name |-> "page " \o ToString(i),
     url |-> "http://site/" \o ToString(i)]

ImageEntry(i) ==
    [contentUrl |-> "http://img/" \o ToString(i),
     thumbnailUrl |-> "http://thumb/" \o ToString(i),
     name |-> "image " \o ToString(i)]

(* n entries, the entry at position bad (if any) lacking the key drop. *)
WebList(n, bad, drop) ==
    [i \in 1..n |-> IF i = bad THEN Without(WebEntry(i), drop) ELSE WebEntry(i)]

ImageList(n, bad, drop) ==
    [i \in 1..n |-> IF i = bad THEN Without(ImageEntry(i), drop) ELSE ImageEntry(i)]

WebPagesChoices ==
    {[present |-> FALSE], [present |-> TRUE, v |-> [webSearchUrl |-> "http://bing/"]]}
    \cup {[present |-> TRUE, v |-> [value |-> WebList(n, 0, "url")]] : n \in 0..MaxWeb}
    \cup {[present |-> TRUE, v |-> [value |-> WebList(n, b, k)]] :
             n \in 1..MaxWeb, b \in 1..MaxWeb, k \in {"snippet", "name", "url"}}

ImagesChoices ==
    {[present |-> FALSE], [present |-> TRUE, v |-> [id |-> "http://bing/images"]]}
    \cup {[present |-> TRUE, v |-> [value |-> ImageList(n, 0, "name")]] : n \in 0..MaxImages}
    \cup {[present |-> TRUE, v |-> [value |-> ImageList(n, b, k)]] :
             n \in 1..MaxImages, b \in 1..MaxImages,
             k \in {"contentUrl", "thumbnailUrl", "name"}}

QueryContextChoices ==
    {[present |-> FALSE],
     [present |-> TRUE, v |-> [alteredQuery |-> "rabbits"]],
     [present |-> TRUE, v |-> [originalQuery |-> "rabbit"]]}

(* The dict with the keys of ks whose choice is present. *)
DictOf(ks, choice) ==
    [k \in {x \in ks : choice[x].present} |-> choice[k].v]

RawResponses ==
    {DictOf({"queryContext", "webPages", "images"},
            [queryContext |-> q, webPages |-> w, images |-> im]) :
        q \in QueryContextChoices, w \in WebPagesChoices, im \in ImagesChoices}

InitNormalize ==
    /\ pc = "call"
    /\ input \in RawResponses
    /\ output = Pending
    /\ env = None /\ http = <<>> /\ result = None /\ locals = None

Normalize ==
    /\ pc = "call"
    /\ output' = process_bing_search_results(input)
    /\ pc' = "done"
    /\ UNCHANGED <<input, env, http, result, locals>>

NextNormalize == Normalize

SpecNormalize == InitNormalize /\ [][NextNormalize]_vars

(***************************************************************************)
(* json.loads on the texts the formatters are given                        *)
(***************************************************************************)

(* s with the characters JSON escapes inside a string escaped. *)
RECURSIVE JsonEscape(_)
JsonEscape(s) ==
    IF s = "" THEN ""
    ELSE LET c == SubSeq(s, 1, 1)
             e == IF c = "\"" THEN "\\\""
                  ELSE IF c = "\\" THEN "\\\\"
                  ELSE IF c = "\n" THEN "\\n"
                  ELSE c
         IN  e \o JsonEscape(SubSeq(s, 2, Len(s)))

JsonString(s) == "\"" \o JsonEscape(s) \o "\""

(* The texts of parts, with sep between them. *)
RECURSIVE Join(_, _)
Join(parts, sep) ==
    IF parts = <<>> THEN ""
    ELSE IF Len(parts) = 1 THEN parts[1]
    ELSE parts[1] \o sep \o Join(Tail(parts), sep)

(* The keys of order that d has, in that order. *)
KeysIn(d, order) == SelectSeq(order, LAMBDA k : k \in DOMAIN d)

SourceKeyOrder == <<"title", "url", "content", "snippet">>
ResponseKeyOrder == <<"query", "results", "top_web_results">>

(* The JSON text of an element of a result list: a dict of strings, or a   *)
(* number.                                                                 *)
JsonElement(e) ==
    IF e.t = "dict"
    THEN LET ks == KeysIn(e.v, SourceKeyOrder)
         IN  "{" \o Join([i \in 1..Len(ks) |->
                            JsonString(ks[i]) \o ": " \o JsonString(e.v[ks[i]])], ", ")
                 \o "}"
    ELSE ToString(e.v)

(* The JSON text of a value other than a dict. *)
JsonScalarOrList(x) ==
    CASE x.t = "none" -> "null"
      [] x.t = "int" -> ToString(x.v)
      [] x.t = "str" -> JsonString(x.v)
      [] x.t = "list" -> "[" \o Join([i \in 1..Len(x.v) |-> JsonElement(x.v[i])], ", ") \o "]"

(* The JSON text of a document. *)
JsonText(x) ==
    IF x.t = "dict"
    THEN LET ks == KeysIn(x.v, ResponseKeyOrder)
         IN  "{" \o Join([i \in 1..Len(ks) |->
                            JsonString(ks[i]) \o ": " \o JsonScalarOrList(x.v[ks[i]])], ", ")
                 \o "}"
    ELSE JsonScalarOrList(x)

(* ---- the sources and responses the formatters are applied to ---- *)

MaxSources == 3
MaxJsonSources == 2
MaxTokens == 3

SourceA1 == PyDict([url |-> "http://a", title |-> "A", content |-> "abcdef"])
SourceA2 == PyDict([url |-> "http://a", title |-> "B \"two\"", snippet |-> "xy"])
SourceB == PyDict([url |-> "http://b"])
SourceNoUrl == PyDict([title |-> "D", content |-> "abc", snippet |-> "unused"])
SourceEmptyUrl == PyDict([url |-> "", title |-> "E", content |-> "empty url"])

SourceDicts == {SourceA1, SourceA2, SourceB, SourceNoUrl, SourceEmptyUrl}

ListsOf(S, n) == UNION {[1..k -> S] : k \in 0..n}

(* The dicts that hold the list l under results, under top_web_results or  *)
(* under both (then with another list under top_web_results).              *)
ResponsesWith(l) ==
    {PyDict([results |-> PyList(l)]),
     PyDict([top_web_results |-> PyList(l), query |-> PyStr("q")]),
     PyDict([results |-> PyList(l), top_web_results |-> PyList(<<SourceB, SourceA2>>)])}

(* Responses that are no dict, hold no list, or hold a list with an entry  *)
(* that is no dict.                                                        *)
OtherResponses ==
    {PyDict([query |-> PyStr("q")]),
     PyDict([results |-> PyInt(5)]),
     PyDict([results |-> None]),
     PyDict([top_web_results |-> None]),
     PyDict([results |-> PyList(<<PyInt(1)>>)]),
     PyDict([results |-> PyList(<<SourceA1, PyInt(1)>>)]),
     PyDict([top_web_results |-> PyList(<<SourceB, PyInt(1), SourceA1>>)]),
     PyList(<<PyInt(1), PyInt(2), PyInt(3)>>),
     PyList(<<>>),
     PyInt(5),
     None}

(* The documents whose JSON texts are given as str input. *)
JsonDocs ==
    OtherResponses \cup {PyStr("abc")}
    \cup UNION {ResponsesWith(l) :
                  l \in ListsOf({SourceA1, SourceA2, SourceNoUrl}, MaxJsonSources)}

DocText == [x \in JsonDocs |-> JsonText(x)]

(* Texts that are not JSON. *)
InvalidJsonTexts == {"", "{bad", "[1, 2", "Sources:"}

JsonTexts == {DocText[x] : x \in JsonDocs} \cup InvalidJsonTexts

(* json.loads(text), for text in JsonTexts: the document whose text it is, *)
(* or a JSONDecodeError.                                                   *)
JsonLoads(text) ==
    IF \E x \in JsonDocs : DocText[x] = text
    THEN Return(CHOOSE x \in JsonDocs : DocText[x] = text)
    ELSE Raise("JSONDecodeError", "Expecting value")

Responses ==
    OtherResponses
    \cup UNION {ResponsesWith(l) : l \in ListsOf(SourceDicts, MaxSources)}
    \cup {PyStr(t) : t \in JsonTexts}

(***************************************************************************)
(* deduplicate_and_format_sources                                          *)
(***************************************************************************)

(* Lines 97-98 and 140-141: a str is decoded, anything else is kept. *)
Decode(search_response) ==
    IF search_response.t = "str"
    THEN JsonLoads(search_response.v)
    ELSE Return(search_response)

(* A mutant of ExtractSources: top_web_results is looked up first. *)
ExtractSourcesTopFirst(search_response) ==
    LET dec == Decode(search_response)
    IN  IF dec.kind = "raise" THEN dec
        ELSE IF dec.value.t # "dict" THEN Raise("ValueError", "Input must be a dictionary")
        ELSE IF "top_web_results" \in DOMAIN dec.value.v
        THEN Return(dec.value.v.top_web_results)
        ELSE IF "results" \in DOMAIN dec.value.v THEN Return(dec.value.v.results)
        ELSE Raise("ValueError", "Missing results in search response")

(* Lines 97-109: the value of sources_list, or the exception raised. *)
ExtractSources(search_response) ==
    LET dec == Decode(search_response)
    IN  IF dec.kind = "raise" THEN dec
        ELSE IF dec.value.t # "dict" THEN Raise("ValueError", "Input must be a dictionary")
        ELSE IF "results" \in DOMAIN dec.value.v THEN Return(dec.value.v.results)
        ELSE IF "top_web_results" \in DOMAIN dec.value.v
        THEN Return(dec.value.v.top_web_results)
        ELSE Raise("ValueError", "Missing results in search response")

(* The position in unique of the source stored under the key url, 0 if     *)
(* there is none.  unique_sources is a dict keyed by url; it is modelled   *)
(* as the sequence of its values in insertion order.                       *)
KeyIndex(unique, url) ==
    IF \E k \in 1..Len(unique) : unique[k].v.url = url
    THEN CHOOSE k \in 1..Len(unique) : unique[k].v.url = url
    ELSE 0

(* A mutant of AddUnique: the membership test is forgotten, so a later     *)
(* source overwrites the one stored under its url.                         *)
AddUniqueLastWins(unique, source) ==
    IF "url" \in DOMAIN source.v /\ source.v.url # ""
    THEN IF KeyIndex(unique, source.v.url) = 0
         THEN Append(unique, source)
         ELSE [unique EXCEPT ![KeyIndex(unique, source.v.url)] = source]
    ELSE unique

(* Lines 114-116: url = source.get('url'); the source is stored when url   *)
(* is truthy and not yet a key.                                            *)
AddUnique(unique, source) ==
    IF "url" \in DOMAIN source.v /\ source.v.url # ""
       /\ KeyIndex(unique, source.v.url) = 0
    THEN Append(unique, source)
    ELSE unique

SourceTitle(source) == IF "title" \in DOMAIN source THEN source.title ELSE "No Title"

SourceContent(source) ==
    IF "content" \in DOMAIN source THEN source.content
    ELSE IF "snippet" \in DOMAIN source THEN source.snippet
    ELSE "[No content]"

SourceUrl(source) == IF "url" \in DOMAIN source THEN source.url ELSE "[No URL]"

(* A mutant of Truncate: the include_raw_content flag is not consulted. *)
TruncateAlways(content, max_tokens_per_source, include_raw_content) ==
    IF Len(content) > max_tokens_per_source
    THEN Prefix(content, max_tokens_per_source) \o "..."
    ELSE content

(* Lines 126-127, for max_tokens_per_source >= 0. *)
Truncate(content, max_tokens_per_source, include_raw_content) ==
    IF ~include_raw_content /\ Len(content) > max_tokens_per_source
    THEN Prefix(content, max_tokens_per_source) \o "..."
    ELSE content

(* Lines 129-131. *)
Block(title, url, content) ==
    "Title: " \o title \o "\n" \o "URL: " \o url \o "\n" \o "Content: " \o content \o "\n\n"

InitDedup ==
    /\ pc = "call"
    /\ input \in [search_response : Responses,
                  max_tokens_per_source : 0..MaxTokens,
                  include_raw_content : BOOLEAN]
    /\ output = Pending
    /\ env = None /\ http = <<>> /\ result = None /\ locals = None

(* Lines 97-112. *)
DedupExtract ==
    /\ pc = "call"
    /\ LET ex == ExtractSources(input.search_response)
       IN  IF ex.kind = "raise"
           THEN /\ output' = ex
                /\ pc' = "done"
                /\ UNCHANGED locals
           ELSE IF ex.value.t # "list"
           THEN /\ output' = Raise("TypeError", "object is not iterable")
                /\ pc' = "done"
                /\ UNCHANGED locals
           ELSE /\ locals' = [sources_list |-> ex.value.v, i |-> 1,
                              unique_sources |-> <<>>, j |-> 1,
                              formatted_text |-> "", content |-> ""]
                /\ pc' = "dedup"
                /\ UNCHANGED output
    /\ UNCHANGED <<input, env, http, result>>

(* One iteration of the loop of lines 113-116. *)
DedupLoop ==
    /\ pc = "dedup"
    /\ locals.i <= Len(locals.sources_list)
    /\ LET source == locals.sources_list[locals.i]
       IN  IF source.t # "dict"
           THEN /\ output' = Raise("AttributeError", "object has no attribute 'get'")
                /\ pc' = "done"
                /\ UNCHANGED locals
           ELSE /\ locals' = [locals EXCEPT
                                !.unique_sources = AddUnique(@, source),
                                !.i = @ + 1]
                /\ UNCHANGED <<pc, output>>
    /\ UNCHANGED <<input, env, http, result>>

(* The loop of lines 113-116 ends; line 119. *)
DedupLoopEnd ==
    /\ pc = "dedup"
    /\ locals.i > Len(locals.sources_list)
    /\ locals' = [locals EXCEPT !.formatted_text = "Sources:\n\n", !.j = 1]
    /\ pc' = "format"
    /\ UNCHANGED <<input, output, env, http, result>>

(* One iteration of the loop of lines 120-131. *)
FormatLoop ==
    /\ pc = "format"
    /\ locals.j <= Len(locals.unique_sources)
    /\ LET source == locals.unique_sources[locals.j].v
           content == Truncate(SourceContent(source), input.max_tokens_per_source,
                               input.include_raw_content)
       IN  locals' = [locals EXCEPT
                        !.content = content,
                        !.formatted_text =
                            @ \o Block(SourceTitle(source), SourceUrl(source), content),
                        !.j = @ + 1]
    /\ UNCHANGED <<pc, input, output, env, http, result>>

(* Line 133. *)
DedupReturn ==
    /\ pc = "format"
    /\ locals.j > Len(locals.unique_sources)
    /\ output' = Return(locals.formatted_text)
    /\ pc' = "done"
    /\ UNCHANGED <<input, env, http, result, locals>>

NextDedup ==
    \/ DedupExtract
    \/ DedupLoop
    \/ DedupLoopEnd
    \/ FormatLoop
    \/ DedupReturn

SpecDedup == InitDedup /\ [][NextDedup]_vars

(***************************************************************************)
(* format_sources                                                          *)
(***************************************************************************)

(* The truth value of a Python value. *)
Truthy(x) ==
    CASE x.t = "none" -> FALSE
      [] x.t = "int" -> x.v # 0
      [] x.t = "str" -> x.v # ""
      [] x.t = "list" -> x.v # <<>>
      [] x.t = "dict" -> DOMAIN x.v # {}

(* A mutant of BulletLine: the defaults of the long form are used. *)
BulletLineLongDefaults(source) ==
    "* " \o SourceTitle(source) \o " : " \o SourceUrl(source)

(* Lines 155-157. *)
BulletLine(source) ==
    "* " \o (IF "title" \in DOMAIN source THEN source.title ELSE "No Title")
         \o " : "
         \o (IF "url" \in DOMAIN source THEN source.url ELSE "No URL")

(* Lines 140-159: the outcome of the body of the try statement. *)
FormatTryBody(search_results) ==
    LET dec == Decode(search_results)
    IN  IF dec.kind = "raise" THEN dec
        ELSE IF dec.value.t # "dict"
        THEN Raise("ValueError", "Input must be a dictionary or JSON string")
        ELSE
          LET results == IF "results" \in DOMAIN dec.value.v
                         THEN dec.value.v.results
                         ELSE PyList(<<>>)
          IN  IF ~Truthy(results) THEN Return("No results found")
              ELSE IF results.t # "list"
              THEN Raise("TypeError", "object is not iterable")
              ELSE IF \E i \in 1..Len(results.v) : results.v[i].t # "dict"
              THEN Raise("AttributeError", "object has no attribute 'get'")
              ELSE Return(Join([i \in 1..Len(results.v) |-> BulletLine(results.v[i].v)],
                               "\n"))

(* A mutant of format_sources: the handler of line 163 is missing. *)
format_sources_uncaught(search_results) ==
    LET o == FormatTryBody(search_results)
    IN  IF o.kind = "raise" /\ o.exc = "JSONDecodeError"
        THEN Raise("ValueError", "Invalid JSON string input")
        ELSE o

(* Lines 138-164: the try statement with its two handlers. *)
format_sources(search_results) ==
    LET o == FormatTryBody(search_results)
    IN  IF o.kind = "raise"
        THEN IF o.exc = "JSONDecodeError"
             THEN Raise("ValueError", "Invalid JSON string input")
             ELSE Return("Error formatting sources: " \o o.msg)
        ELSE o

InitFormat ==
    /\ pc = "call"
    /\ input \in Responses
    /\ output = Pending
    /\ env = None /\ http = <<>> /\ result = None /\ locals = None

FormatSources ==
    /\ pc = "call"
    /\ output' = format_sources(input)
    /\ pc' = "done"
    /\ UNCHANGED <<input, env, http, result, locals>>

NextFormat == FormatSources

SpecFormat == InitFormat /\ [][NextFormat]_vars

(***************************************************************************)
(* BingSearchClient and bing_search                                        *)
(***************************************************************************)

ENDPOINT == "https://api.bing.microsoft.com/v7.0/search"

(* A mutant of ClientInit: the key is not checked. *)
ClientInitUnchecked(api_key) ==
    Return([api_key |-> api_key,
            headers |-> [Ocp_Apim_Subscription_Key |-> api_key,
                         Accept |-> "application/json"]])

(* Lines 47-55: BingSearchClient(), given os.getenv("BING_API_KEY"). *)
ClientInit(api_key) ==
    IF ~Truthy(api_key)
    THEN Raise("ValueError", "Bing API key is not set. Please provide it or set BING_API_KEY environment variable.")
    ELSE Return([api_key |-> api_key,
                 headers |-> [Ocp_Apim_Subscription_Key |-> api_key,
                              Accept |-> "application/json"]])

(* Lines 58-71, as called by bing_search: no freshness, no kwargs. *)
SearchParams(query, max_results, sites) ==
    [q |-> IF sites # <<>>
           THEN query \o " " \o Join([i \in 1..Len(sites) |-> "site:" \o sites[i]], " OR ")
           ELSE query,
     count |-> max_results,
     offset |-> 0,
     safeSearch |-> "Moderate"]

(* response.raise_for_status() raises HTTPError for a 4xx or 5xx status. *)
IsErrorStatus(status) == 400 <= status /\ status < 600

HTTPErrorMessage(status) == ToString(status) \o " Error for url: " \o ENDPOINT

(* Lines 80-82: requests.get raised the RequestException e; the dict that  *)
(* search returns.                                                         *)
SearchOnException(e) == [error |-> e.msg]

(* A mutant of SearchOnResponse: an HTTPError is raised again. *)
SearchOnResponseReraised(response) ==
    IF IsErrorStatus(response.status)
    THEN {Raise("HTTPError", HTTPErrorMessage(response.status))}
    ELSE IF response.body.json
    THEN {Return(response.body.doc)}
    ELSE {Return([error |-> "Expecting value"]), Raise("JSONDecodeError", "Expecting value")}

(* Lines 75-82: the outcomes of search once requests.get has returned      *)
(* response.  A body that is not JSON makes response.json() raise an       *)
(* exception that is a RequestException in some versions of requests (it   *)
(* is then caught by line 80) and only a ValueError in others (it then     *)
(* leaves search): both outcomes are possible.                             *)
SearchOnResponse(response) ==
    IF IsErrorStatus(response.status)
    THEN {Return([error |-> HTTPErrorMessage(response.status)])}
    ELSE IF response.body.json
    THEN {Return(response.body.doc)}
    ELSE {Return([error |-> "Expecting value"]), Raise("JSONDecodeError", "Expecting value")}

(* ---- json.dumps(..., indent=2, ensure_ascii=False) of a normalized response ---- *)

ProcessedResultKeys == <<"content", "raw_content", "score", "title", "url">>
ProcessedImageKeys == <<"url", "thumbnail_url", "title">>

(* The text of a dict of strings (and the score) at the given indent. *)
DumpsItem(d, keys, indent) ==
    "{\n"
    \o Join([i \in 1..Len(keys) |->
               indent \o "  " \o JsonString(keys[i]) \o ": "
               \o (IF keys[i] = "score" THEN ToString(d[keys[i]]) \o ".0"
                   ELSE JsonString(d[keys[i]]))], ",\n")
    \o "\n" \o indent \o "}"

DumpsList(l, keys, indent) ==
    IF l = <<>> THEN "[]"
    ELSE "[\n"
         \o Join([i \in 1..Len(l) |-> indent \o "  " \o DumpsItem(l[i], keys, indent \o "  ")],
                 ",\n")
         \o "\n" \o indent \o "]"

DumpsResponse(p) ==
    "{\n"
    \o "  \"answer\": null,\n"
    \o "  \"follow_up_questions\": null,\n"
    \o "  \"images\": " \o DumpsList(p.images, ProcessedImageKeys, "  ") \o ",\n"
    \o "  \"query\": " \o JsonString(p.query) \o ",\n"
    \o "  \"response_time\": null,\n"
    \o "  \"results\": " \o DumpsList(p.results, ProcessedResultKeys, "  ") \o "\n"
    \o "}"

(* ---- the environment of bing_search ---- *)

ApiKeys == {None, PyStr(""), PyStr("secret")}

Queries == {"rabbit", "say \"hi\""}

SiteLists == {<<>>, <<"a.com">>, <<"a.com", "b.org">>}

(* The bodies the server may answer with. *)
BodyDocs ==
    {[queryContext |-> [originalQuery |-> "rabbit"]],
     [queryContext |-> [originalQuery |-> "say \"hi\""],
      webPages |-> [value |-> WebList(2, 0, "url")],
      images |-> [value |-> ImageList(1, 1, "name")]],
     [queryContext |-> [originalQuery |-> "rabbit"],
      webPages |-> [value |-> WebList(2, 2, "snippet")]],
     [queryContext |-> [originalQuery |-> "rabbit"], error |-> "partial"],
     [queryContext |-> [alteredQuery |-> "rabbits"]],
     [error |-> "quota exceeded"],
     [webPages |-> [value |-> WebList(1, 0, "url")]]}

Bodies ==
    {[json |-> TRUE, doc |-> d] : d \in BodyDocs}
    \cup {[json |-> FALSE, text |-> "<html>Bad Gateway</html>"]}

Statuses == {200, 401, 500}

(* What requests.get may do: raise a RequestException, or return a response. *)
NetOutcomes ==
    {[kind |-> "exception", exc |-> "ConnectionError", msg |-> "Connection refused"],
     [kind |-> "exception", exc |-> "Timeout", msg |-> "Read timed out"]}
    \cup {[kind |-> "response", status |-> st, body |-> b] : st \in Statuses, b \in Bodies}

NoNet == [kind |-> "none"]

InitBing ==
    /\ pc = "call"
    /\ input \in [query : Queries, max_results : {3}, sites : SiteLists]
    /\ env \in {[BING_API_KEY |-> k] : k \in ApiKeys}
    /\ output = Pending
    /\ http = <<>>
    /\ result = None
    /\ locals = [client |-> None, net |-> NoNet, processed |-> None]

(* Line 183. *)
Construct ==
    /\ pc = "call"
    /\ LET c == ClientInit(env.BING_API_KEY)
       IN  IF c.kind = "raise"
           THEN /\ output' = c
                /\ pc' = "done"
                /\ UNCHANGED locals
           ELSE /\ locals' = [locals EXCEPT !.client = c.value]
                /\ pc' = "search"
                /\ UNCHANGED output
    /\ UNCHANGED <<input, env, http, result>>

(* Lines 58-74 and 80-82: search builds the parameters and calls           *)
(* requests.get, which raises or returns a response.                       *)
SearchGet ==
    /\ pc = "search"
    /\ http' = Append(http, [method |-> "GET", url |-> ENDPOINT,
                             headers |-> locals.client.headers,
                             params |-> SearchParams(input.query, input.max_results,
                                                     input.sites)])
    /\ \E net \in NetOutcomes :
         /\ locals' = [locals EXCEPT !.net = net]
         /\ IF net.kind = "exception"
            THEN result' = SearchOnException(net) /\ pc' = "normalize"
            ELSE pc' = "status" /\ UNCHANGED result
    /\ UNCHANGED <<input, env, output>>

(* Lines 75-82: raise_for_status, json, and the handlers. *)
SearchFinish ==
    /\ pc = "status"
    /\ \E o \in SearchOnResponse(locals.net) :
         IF o.kind = "raise"
         THEN output' = o /\ pc' = "done" /\ UNCHANGED result
         ELSE result' = o.value /\ pc' = "normalize" /\ UNCHANGED output
    /\ UNCHANGED <<input, env, http, locals>>

(* Line 185: process_bing_search_results(result). *)
BingNormalize ==
    /\ pc = "normalize"
    /\ LET o == process_bing_search_results(result)
       IN  IF o.kind = "raise"
           THEN output' = o /\ pc' = "done" /\ UNCHANGED locals
           ELSE /\ locals' = [locals EXCEPT !.processed = o.value]
                /\ pc' = "serialize"
                /\ UNCHANGED output
    /\ UNCHANGED <<input, env, http, result>>

(* Line 185: return json.dumps(...). *)
Serialize ==
    /\ pc = "serialize"
    /\ output' = Return(DumpsResponse(locals.processed))
    /\ pc' = "done"
    /\ UNCHANGED <<input, env, http, result, locals>>

NextBing ==
    \/ Construct
    \/ SearchGet
    \/ SearchFinish
    \/ BingNormalize
    \/ Serialize

SpecBing == InitBing /\ [][NextBing]_vars

(***************************************************************************)
(* The properties                                                          *)
(***************************************************************************)

(* text has pat as a substring. *)
Contains(text, pat) ==
    \E i \in 1..(Len(text) - Len(pat) + 1) : SubSeq(text, i, i + Len(pat) - 1) = pat

(* The number of places at which pat occurs in text. *)
Occurrences(text, pat) ==
    Cardinality({i \in 1..(Len(text) - Len(pat) + 1) :
                   SubSeq(text, i, i + Len(pat) - 1) = pat})

(* The elements of a finite set of integers in increasing order. *)
RECURSIVE Sorted(_)
Sorted(S) ==
    IF S = {} THEN <<>>
    ELSE LET m == CHOOSE x \in S : \A y \in S : x <= y
         IN  <<m>> \o Sorted(S \ {m})

(* ---- process_bing_search_results ---- *)

WellFormedQuery ==
    /\ "queryContext" \in DOMAIN input
    /\ "originalQuery" \in DOMAIN input.queryContext

HasWebValue == "webPages" \in DOMAIN input /\ "value" \in DOMAIN input.webPages

HasImagesValue == "images" \in DOMAIN input /\ "value" \in DOMAIN input.images

WellFormedWeb ==
    /\ HasWebValue
    /\ \A i \in 1..Len(input.webPages.value) :
         {"snippet", "name", "url"} \subseteq DOMAIN input.webPages.value[i]

(* Each of the first ten images, if there are images, has a contentUrl. *)
WellFormedImages ==
    HasImagesValue =>
      \A i \in 1..Len(input.images.value) :
        i <= 10 => "contentUrl" \in DOMAIN input.images.value[i]

ResultsFollowWebPages ==
    /\ output.kind = "return"
    /\ Len(output.value.results) = Len(input.webPages.value)
    /\ \A i \in 1..Len(input.webPages.value) :
         LET r == output.value.results[i]
             e == input.webPages.value[i]
         IN  /\ r.title = e.name
             /\ r.url = e.url
             /\ r.content = e.snippet
             /\ r.raw_content = e.snippet
             /\ r.score = 0

(* C1 as stated: for every raw response with queryContext.originalQuery    *)
(* and a webPages.value list of N well-formed entries, the call returns N  *)
(* results, the i-th built from the i-th entry, each with score 0.         *)
C1_AsStated ==
    (pc = "done" /\ WellFormedQuery /\ WellFormedWeb) => ResultsFollowWebPages

(* C1, amended: the same, for the raw responses whose first ten images     *)
(* (if any) each carry a contentUrl; for the others the call raises a      *)
(* KeyError and returns nothing.                                           *)
C1_ResultsFollowWebPages ==
    /\ (pc = "done" /\ WellFormedQuery /\ WellFormedWeb /\ WellFormedImages)
         => ResultsFollowWebPages
    /\ (pc = "done" /\ WellFormedQuery /\ WellFormedWeb /\ ~WellFormedImages)
         => output = Raise("KeyError", "contentUrl")

C1_Witness ==
    /\ pc = "done" /\ WellFormedQuery /\ WellFormedWeb /\ WellFormedImages
    /\ Len(input.webPages.value) >= 3
    /\ HasImagesValue /\ Len(input.images.value) >= 1
    /\ output.kind = "return"
    /\ Len(output.value.results) >= 3

(* C2: whenever the normalizer returns, images has at most 10 entries:     *)
(* the first 10 of images.value in order when there are 10 or more, all of *)
(* them in order when there are fewer, none when images or images.value is *)
(* absent.                                                                 *)
C2_ImagesCapped ==
    (pc = "done" /\ output.kind = "return") =>
      LET imgs == output.value.images
      IN  /\ Len(imgs) <= 10
          /\ ~HasImagesValue => imgs = <<>>
          /\ HasImagesValue =>
               LET v == input.images.value
               IN  /\ Len(v) >= 10 => Len(imgs) = 10
                   /\ Len(v) < 10 => Len(imgs) = Len(v)
                   /\ \A i \in 1..Len(imgs) :
                        /\ imgs[i].url = v[i].contentUrl
                        /\ imgs[i].thumbnail_url =
                             (IF "thumbnailUrl" \in DOMAIN v[i] THEN v[i].thumbnailUrl ELSE "")
                        /\ imgs[i].title = (IF "name" \in DOMAIN v[i] THEN v[i].name ELSE "")

C2_Witness ==
    /\ pc = "done" /\ output.kind = "return"
    /\ HasImagesValue /\ Len(input.images.value) > 10
    /\ Len(output.value.images) = 10

(* ---- deduplicate_and_format_sources ---- *)

(* The call returned its text. *)
DedupReturned == pc = "done" /\ output.kind = "return"

(* The content the long form is said to render for a source. *)
RenderedContent(source) ==
    LET resolved == IF "content" \in DOMAIN source THEN source.content
                    ELSE IF "snippet" \in DOMAIN source THEN source.snippet
                    ELSE "[No content]"
    IN  IF ~input.include_raw_content /\ Len(resolved) > input.max_tokens_per_source
        THEN SubSeq(resolved, 1, input.max_tokens_per_source) \o "..."
        ELSE resolved

RenderedBlock(source) ==
    "Title: " \o (IF "title" \in DOMAIN source THEN source.title ELSE "No Title") \o "\n"
    \o "URL: " \o source.url \o "\n"
    \o "Content: " \o RenderedContent(source) \o "\n\n"

(* The positions of l that carry a URL (a url that is not empty). *)
WithUrl(l) == {i \in 1..Len(l) : "url" \in DOMAIN l[i].v /\ l[i].v.url # ""}

(* The positions of l at which a URL is seen for the first time. *)
FirstSeen(l) == {i \in WithUrl(l) : \A j \in WithUrl(l) : j < i => l[j].v.url # l[i].v.url}

RECURSIVE Concat(_)
Concat(texts) == IF texts = <<>> THEN "" ELSE Head(texts) \o Concat(Tail(texts))

(* C3: each distinct URL of the input is in the output exactly once, with  *)
(* the title and content of the first source that carries it, and the      *)
(* blocks are in the order in which the URLs were first seen.              *)
C3_FirstSeenWins ==
    DedupReturned =>
      LET l == locals.sources_list
          order == Sorted(FirstSeen(l))
      IN  /\ output.value =
               "Sources:\n\n" \o Concat([k \in 1..Len(order) |-> RenderedBlock(l[order[k]].v)])
          /\ \A i \in WithUrl(l) :
               Occurrences(output.value, "URL: " \o l[i].v.url \o "\n") = 1
          /\ Len(locals.unique_sources) = Len(order)
          /\ \A k \in 1..Len(order) : locals.unique_sources[k] = l[order[k]]

C3_Witness ==
    /\ DedupReturned
    /\ Len(locals.sources_list) = 3
    /\ WithUrl(locals.sources_list) = {1, 2, 3}
    /\ locals.sources_list[1].v.url = locals.sources_list[3].v.url
    /\ locals.sources_list[1] # locals.sources_list[3]
    /\ locals.sources_list[1].v.url # locals.sources_list[2].v.url
    /\ Len(locals.unique_sources) = 2

(* C4: a source of the input that has no url field is rendered, with the   *)
(* URL line "URL: [No URL]".                                               *)
C4_NoUrlSourceRendered ==
    DedupReturned =>
      \A i \in 1..Len(locals.sources_list) :
        "url" \notin DOMAIN locals.sources_list[i].v =>
          /\ \E k \in 1..Len(locals.unique_sources) :
               locals.unique_sources[k] = locals.sources_list[i]
          /\ Contains(output.value, "URL: [No URL]\n")

(* C7: the call raises ValueError, and returns nothing, when the decoded   *)
(* input is not a dict and when the dict has neither results nor           *)
(* top_web_results; when it has both, the list under results is used.      *)
C7_ValueErrors ==
    LET dec == Decode(input.search_response)
    IN  (pc # "call" /\ dec.kind = "return") =>
          /\ dec.value.t # "dict" =>
               pc = "done" /\ output.kind = "raise" /\ output.exc = "ValueError"
          /\ (dec.value.t = "dict"
              /\ DOMAIN dec.value.v \cap {"results", "top_web_results"} = {}) =>
               pc = "done" /\ output.kind = "raise" /\ output.exc = "ValueError"
          /\ (dec.value.t = "dict"
              /\ {"results", "top_web_results"} \subseteq DOMAIN dec.value.v
              /\ dec.value.v.results.t = "list") =>
               /\ locals # None
               /\ locals.sources_list = dec.value.v.results.v

C7_Witness ==
    /\ pc = "done"
    /\ input.search_response = PyStr("[1, 2, 3]")
    /\ output = Raise("ValueError", "Input must be a dictionary")

(* A source has just been rendered by the second loop. *)
JustRendered == pc = "format" /\ locals.j > 1

(* C9: the content rendered for a unique source is its first               *)
(* max_tokens_per_source characters followed by "..." exactly when         *)
(* include_raw_content is false and the content is longer than that; else  *)
(* it is rendered unchanged; with truncation on it is never longer than    *)
(* max_tokens_per_source + 3.                                              *)
C9_Truncation ==
    JustRendered =>
      LET source == locals.unique_sources[locals.j - 1].v
          resolved == IF "content" \in DOMAIN source THEN source.content
                      ELSE IF "snippet" \in DOMAIN source THEN source.snippet
                      ELSE "[No content]"
          max == input.max_tokens_per_source
          tail == "Content: " \o locals.content \o "\n\n"
          text == locals.formatted_text
      IN  /\ (~input.include_raw_content /\ Len(resolved) > max)
                => locals.content = SubSeq(resolved, 1, max) \o "..."
          /\ (input.include_raw_content \/ Len(resolved) <= max)
                => locals.content = resolved
          /\ ~input.include_raw_content => Len(locals.content) <= max + 3
          /\ Len(text) >= Len(tail)
          /\ SubSeq(text, Len(text) - Len(tail) + 1, Len(text)) = tail

C9_Witness ==
    /\ JustRendered
    /\ ~input.include_raw_content
    /\ input.max_tokens_per_source = 2
    /\ locals.content = "ab..."

(* ---- format_sources ---- *)

ErrorPrefix == "Error formatting sources: "

(* The call returned a string that starts with the error prefix. *)
ReturnedError ==
    /\ output.kind = "return"
    /\ Len(output.value) > Len(ErrorPrefix)
    /\ SubSeq(output.value, 1, Len(ErrorPrefix)) = ErrorPrefix

(* C5 as stated: format_sources never propagates an exception. *)
C5_AsStated == pc = "done" => output.kind = "return"

(* C5, amended: format_sources propagates an exception for exactly one     *)
(* kind of input, a str that is not JSON, for which it raises              *)
(* ValueError("Invalid JSON string input"); for every other input it       *)
(* returns a string, and a failure (an input that is no dict, a results    *)
(* value that cannot be iterated, an entry that is no dict) is returned as *)
(* a message that starts with "Error formatting sources: ".                *)
C5_OnlyInvalidJsonRaises ==
    pc = "done" =>
      IF input.t = "str" /\ input.v \in InvalidJsonTexts
      THEN output = Raise("ValueError", "Invalid JSON string input")
      ELSE /\ output.kind = "return"
           /\ LET d == Decode(input).value
              IN  /\ d.t # "dict" => ReturnedError
                  /\ (d.t = "dict" /\ "results" \in DOMAIN d.v /\ d.v.results.t = "int")
                       => ReturnedError
                  /\ (d.t = "dict" /\ "results" \in DOMAIN d.v /\ d.v.results.t = "list"
                      /\ \E i \in 1..Len(d.v.results.v) : d.v.results.v[i].t # "dict")
                       => ReturnedError

C5_Witness ==
    /\ pc = "done"
    /\ input = PyStr("{\"results\": [1]}")
    /\ ReturnedError

(* The bullet lines the short form is said to produce. *)
RECURSIVE ExpectedBullets(_)
ExpectedBullets(l) ==
    IF l = <<>> THEN ""
    ELSE LET line == "* " \o (IF "title" \in DOMAIN l[1].v THEN l[1].v.title ELSE "No Title")
                     \o " : " \o (IF "url" \in DOMAIN l[1].v THEN l[1].v.url ELSE "No URL")
         IN  IF Len(l) = 1 THEN line ELSE line \o "\n" \o ExpectedBullets(Tail(l))

(* C8: on a dict whose results is absent or an empty list the call returns *)
(* "No results found"; on a results list of N >= 1 dicts it returns N      *)
(* lines "* <title> : <url>" in the order of the list, joined by newlines, *)
(* without a trailing newline and with duplicates kept.                    *)
C8_Bullets ==
    LET dec == Decode(input)
    IN  (pc = "done" /\ dec.kind = "return" /\ dec.value.t = "dict") =>
          LET d == dec.value.v
          IN  /\ "results" \notin DOMAIN d => output = Return("No results found")
              /\ ("results" \in DOMAIN d /\ d.results.t = "list") =>
                   LET l == d.results.v
                   IN  /\ l = <<>> => output = Return("No results found")
                       /\ (l # <<>> /\ \A i \in 1..Len(l) : l[i].t = "dict") =>
                            /\ output = Return(ExpectedBullets(l))
                            /\ Occurrences(output.value, "\n") = Len(l) - 1
                            /\ Occurrences(output.value, "* ") = Len(l)
                            /\ SubSeq(output.value, Len(output.value), Len(output.value)) # "\n"

C8_Witness ==
    /\ pc = "done"
    /\ input = PyDict([results |-> PyList(<<SourceA1, SourceNoUrl, SourceA1>>)])
    /\ output = Return("* A : http://a\n* D : No URL\n* A : http://a")

(* ---- BingSearchClient.search and bing_search ---- *)

(* requests.get raised, or the response has a 4xx or 5xx status. *)
TransportOrStatusFailure ==
    \/ locals.net.kind = "exception"
    \/ locals.net.kind = "response" /\ locals.net.status >= 400

(* search has returned or raised. *)
SearchEnded == pc \in {"normalize", "serialize"} \/ (pc = "done" /\ locals.net.kind # "none")

(* C6: search issues exactly one GET; on a transport or HTTP-status        *)
(* failure it returns a dict with the single key error and does not raise; *)
(* on success it returns the decoded body.                                 *)
C6_OneGetNoRaise ==
    /\ Len(http) <= 1
    /\ SearchEnded =>
         /\ Len(http) = 1
         /\ http[1].method = "GET" /\ http[1].url = ENDPOINT
         /\ TransportOrStatusFailure =>
              /\ result # None
              /\ DOMAIN result = {"error"}
              /\ locals.net.kind = "exception" => result.error = locals.net.msg
         /\ (locals.net.kind = "response" /\ locals.net.status < 400 /\ locals.net.body.json)
              => result = locals.net.body.doc

C6_Witness ==
    /\ pc = "normalize"
    /\ locals.net.kind = "response" /\ locals.net.status = 500
    /\ Len(http) = 1
    /\ DOMAIN result = {"error"}

NoOriginalQuery ==
    \/ "queryContext" \notin DOMAIN result
    \/ "originalQuery" \notin DOMAIN result.queryContext

(* C10: bing_search constructs the client, searches once, normalizes and   *)
(* serializes, in that order; without an API key it raises before any      *)
(* request; on the error envelope, or a body without                       *)
(* queryContext.originalQuery, the normalize step raises; it returns only  *)
(* if every step succeeded, never after a transport or HTTP failure, and   *)
(* never a text with an error key.                                         *)
C10_EndToEnd ==
    /\ ~Truthy(env.BING_API_KEY) =>
         /\ http = <<>>
         /\ pc \in {"call", "done"}
         /\ pc = "done" => output.kind = "raise" /\ output.exc = "ValueError"
    /\ pc = "call" => locals.client = None /\ http = <<>>
    /\ pc = "search" => locals.client # None /\ http = <<>> /\ result = None
    /\ pc = "status" => Len(http) = 1 /\ result = None
    /\ pc = "normalize" => Len(http) = 1 /\ result # None /\ locals.processed = None
    /\ pc = "serialize" => Len(http) = 1 /\ result # None /\ locals.processed # None
    /\ pc # "done" => output.kind = "pending"
    /\ (pc = "done" /\ result # None /\ (DOMAIN result = {"error"} \/ NoOriginalQuery))
         => output.kind = "raise" /\ output.exc = "KeyError"
    /\ TransportOrStatusFailure => output.kind # "return"
    /\ output.kind = "return" =>
         /\ pc = "done"
         /\ locals.client # None
         /\ Len(http) = 1
         /\ locals.net.kind = "response" /\ locals.net.status < 400 /\ locals.net.body.json
         /\ result = locals.net.body.doc
         /\ ~NoOriginalQuery
         /\ locals.processed # None
         /\ DOMAIN locals.processed =
              {"answer", "follow_up_questions", "images", "query", "response_time", "results"}
         /\ SubSeq(output.value, 1, 20) = "{\n  \"answer\": null,\n"
         /\ ~Contains(output.value, "\"error\"")

C10_Witness ==
    /\ pc = "done"
    /\ locals.net.kind = "exception"
    /\ DOMAIN result = {"error"}
    /\ Len(http) = 1
    /\ output = Raise("KeyError", "queryContext")

====
